---- MODULE Spec2Model ----
(***************************************************************************)
(* The Keycloak provisioning scripts of durvalcrm-deployment as one state  *)
(* machine.  A run of a script is a strictly sequential chain of blocking  *)
(* HTTP exchanges (token, realm, client, user, credential); every action   *)
(* below is one exchange: the request is issued, the remote service        *)
(* answers, and the script's handling of the answer runs up to the next    *)
(* request or to process exit.                                             *)
(*                                                                         *)
(* The remote service is modelled by its resource state (realm, client,    *)
(* users, credentials).  It answers every request either regularly, from   *)
(* that state, or with a deviating answer (an error status, a connection   *)
(* failure, a malformed body); deviating answers are counted and bounded.  *)
(***************************************************************************)
EXTENDS Integers, Sequences, FiniteSets, TLC

VARIABLES
    script,   \* which of the five provisioning scripts is being run
    srv,      \* the remote service's resource state
    proc,     \* proc[p]: the state of the p-th run of the script
    faults    \* number of deviating answers given so far

vars == <<script, srv, proc, faults>>

-----------------------------------------------------------------------------
(* Bounds of the model *)

\* runs of the script executed one after the other against the same target
MaxRuns == 2

\* deviating answers of the remote service over all runs
MaxFaults == 4

-----------------------------------------------------------------------------
(* The scripts and their transport *)

Scripts == {"minimal", "import", "create_realm", "setup_dev", "setup_prod"}

\* create-realm-minimal.py and import-realm-via-api.py use urllib.request,
\* create_realm.py a requests.Session with a retry adapter, and both
\* setup-realm-complete.py scripts bare requests calls.
UrllibScripts == {"minimal", "import"}

SessionScripts == {"create_realm"}

SetupScripts == {"setup_dev", "setup_prod"}

\* Retry(total=3, ...): the number of retries after the first attempt
RetryTotal == 3

\* Retry(status_forcelist=[500, 502, 503, 504])
StatusForcelist == {500, 502, 503, 504}

\* Retry's allowed_methods is left at its default: the idempotent methods.
\* POST is not among them.
AllowedMethods == {"HEAD", "GET", "PUT", "DELETE", "OPTIONS", "TRACE"}

\* for i in range(30): the readiness probe of setup-realm-complete.py
ProbeAttempts == 30

\* deviating answers while two processes run at the same time
RaceFaults == 1

Is2xx(status) == status >= 200 /\ status <= 299

-----------------------------------------------------------------------------
(* The remote service *)

\* The user the scripts provision, and a second account whose username
\* contains the provisioned one: the users?username= query of the admin API
\* matches by containment, so both are returned by the scripts' lookup.
NoUser == [id |-> 0, pw |-> FALSE]

\* the resources of the target, as an operator sees them by name
Resources(s) ==
    [realm  |-> s.realm,
     client |-> s.client,
     user   |-> s.user.id # 0,
     userPw |-> s.user.pw,
     other  |-> s.other.id # 0,
     otherPw |-> s.other.pw]

\* ids of the accounts a lookup by the provisioned username returns
Matching(s) == {u.id : u \in {x \in {s.user, s.other} : x.id # 0}}

\* The id of the first account such a lookup lists (0: the list is empty).
\* The service lists the accounts in a fixed order; otherFirst says whether
\* the second account comes before the provisioned one.
FirstMatch(s) ==
    IF s.other.id # 0 /\ (s.otherFirst \/ s.user.id = 0) THEN s.other.id
    ELSE s.user.id

Answer(status, val, applied) ==
    [err |-> "none", status |-> status, val |-> val, applied |-> applied]

Failure(err) == [err |-> err, status |-> 0, val |-> 0, applied |-> FALSE]

\* What the service answers when it works as documented (spec section 6).
\* val carries the payload the scripts read: the access_token of the token
\* answer, the id in the Location header of a user creation, the id of the
\* first user of a lookup (0: absent).
Regular(kind, target) ==
    CASE kind = "probe" -> {Answer(200, 0, TRUE)}
      [] kind = "token" -> {Answer(200, 1, TRUE)}
      [] kind = "delete_realm" ->
            {IF srv.realm THEN Answer(204, 0, TRUE) ELSE Answer(404, 0, TRUE)}
      [] kind \in {"check_realm", "verify_realm"} ->
            {IF srv.realm THEN Answer(200, 0, TRUE) ELSE Answer(404, 0, TRUE)}
      [] kind = "create_realm" ->
            {IF srv.realm THEN Answer(409, 0, TRUE) ELSE Answer(201, 0, TRUE)}
      [] kind = "create_client" ->
            {IF ~srv.realm THEN Answer(404, 0, TRUE)
             ELSE IF srv.client THEN Answer(409, 0, TRUE)
             ELSE Answer(201, 0, TRUE)}
      [] kind = "create_user" ->
            {IF ~srv.realm THEN Answer(404, 0, TRUE)
             ELSE IF srv.user.id # 0 THEN Answer(409, 0, TRUE)
             ELSE Answer(201, srv.nextId, TRUE)}
      [] kind = "lookup_user" ->
            IF ~srv.realm THEN {Answer(404, 0, TRUE)}
            ELSE {Answer(200, FirstMatch(srv), TRUE)}
      [] kind = "set_credential" ->
            {IF srv.realm /\ target \in Matching(srv)
             THEN Answer(204, 0, TRUE) ELSE Answer(404, 0, TRUE)}

\* statuses of deviating answers
FaultStatuses == {200, 400, 401, 409, 500, 503}

SameAnswer(a, b) == a.err = b.err /\ a.status = b.status /\ a.val = b.val

\* Deviating answers: an error status or an unexpected success status with
\* no payload, a connection that cannot be established, a connection that
\* breaks while the answer is read, and a user creation that is carried out
\* but answered without a Location header.
Deviating(kind, target) ==
    LET raw == {Answer(s, 0, FALSE) : s \in FaultStatuses}
                 \cup {Failure("connect"), Failure("read")}
                 \cup (IF kind = "create_user" /\ srv.realm /\ srv.user.id = 0
                       THEN {Answer(201, 0, TRUE)} ELSE {})
    IN  {d \in raw : \A h \in Regular(kind, target) : ~SameAnswer(d, h)}

Answers(kind, target) ==
    Regular(kind, target)
      \cup (IF faults < MaxFaults THEN Deviating(kind, target) ELSE {})

\* create_realm.py sends the password inside the user representation
\* (user_data['credentials']); the other scripts create the user without one.
WithCredentials == script \in SessionScripts

\* the service's state after carrying out a request it answered with r
Apply(kind, target, r) ==
    IF ~r.applied THEN srv
    ELSE CASE kind = "delete_realm" /\ r.status = 204 ->
                [srv EXCEPT !.realm = FALSE, !.client = FALSE,
                            !.user = NoUser, !.other = NoUser]
           [] kind = "create_realm" /\ r.status = 201 ->
                [srv EXCEPT !.realm = TRUE]
           [] kind = "create_client" /\ r.status = 201 ->
                [srv EXCEPT !.client = TRUE]
           [] kind = "create_user" /\ r.status = 201 ->
                [srv EXCEPT !.user = [id |-> srv.nextId, pw |-> WithCredentials],
                            !.nextId = @ + 1]
           [] kind = "set_credential" /\ r.status = 204 ->
                [srv EXCEPT !.user.pw = @ \/ (target # 0 /\ target = srv.user.id),
                            !.other.pw = @ \/ (target # 0 /\ target = srv.other.id)]
           [] OTHER -> srv

Serve(kind, target, r) ==
    /\ srv' = Apply(kind, target, r)
    /\ faults' = IF r \in Regular(kind, target) THEN faults ELSE faults + 1

\* the target before the first run: nothing, or a realm that is partially
\* or fully configured
InitialTargets ==
    {[realm |-> FALSE, client |-> FALSE, user |-> NoUser, other |-> NoUser,
      otherFirst |-> FALSE, nextId |-> 3]}
    \cup {[realm |-> TRUE, client |-> c, user |-> u, other |-> NoUser,
           otherFirst |-> FALSE, nextId |-> 3] :
            c \in BOOLEAN,
            u \in {NoUser} \cup {[id |-> 1, pw |-> b] : b \in BOOLEAN}}
    \cup {[realm |-> TRUE, client |-> c, user |-> u, other |-> [id |-> 2, pw |-> FALSE],
           otherFirst |-> f, nextId |-> 3] :
            c \in BOOLEAN, f \in BOOLEAN,
            u \in {NoUser} \cup {[id |-> 1, pw |-> b] : b \in BOOLEAN}}

-----------------------------------------------------------------------------
(* A run of a script *)

Runs == 1..MaxRuns

\* proc[p] before the run starts.  The outcomes are "none", "Created",
\* "AlreadyExists", "Set" (credential) or "Failed"; code is the exit code
\* once pc = "exit".
InitProc ==
    [pc            |-> "idle",
     probes        |-> 0,        \* failed readiness probes so far
     ready         |-> FALSE,    \* a readiness probe returned 200
     token         |-> FALSE,    \* an access token was obtained
     retries       |-> 0,        \* retries of the current request so far
     realmOutcome  |-> "none",
     clientOutcome |-> "none",
     clientStatus  |-> 0,        \* the status create_client was answered with
     userOutcome   |-> "none",
     credOutcome   |-> "none",
     userId        |-> 0,        \* the resolved user id (0: unresolved)
     code          |-> 0,
     crashed       |-> FALSE,    \* ended by an exception nothing handles
     log           |-> <<>>,     \* the requests issued after readiness
     answers       |-> <<>>,     \* the answers to the attempts of the last request
     otherErr      |-> FALSE,    \* saw an answer that is neither 2xx nor a 409 to a create
     faulty        |-> FALSE,    \* saw an answer other than the regular one
     initial       |-> Resources(srv),  \* the target's resources when main is entered
     final         |-> Resources(srv)]  \* the target's resources at exit

Method(kind) ==
    CASE kind \in {"token", "create_realm", "create_client", "create_user"} -> "POST"
      [] kind \in {"probe", "check_realm", "lookup_user", "verify_realm"} -> "GET"
      [] kind = "delete_realm" -> "DELETE"
      [] kind = "set_credential" -> "PUT"

\* The token request, the readiness probe and create_realm.py's closing
\* GET of /realms/{realm} carry no Authorization header; every admin request
\* is built with 'Bearer {token}'.
\* faulty variant: the lookup is sent without the Authorization header
AuthorizedExceptLookup(kind) ==
    kind \notin {"probe", "token", "verify_realm", "lookup_user"}

Authorized(kind) == kind \notin {"probe", "token", "verify_realm"}

\* Whether the request carries a Content-Length header: the urllib scripts
\* add one to every request they give a body (the POSTs and the PUT), and
\* requests computes one for every method but GET; the GETs carry none.
ContentLength(kind) == Method(kind) # "GET"

Req(kind, target) ==
    [kind |-> kind, method |-> Method(kind), auth |-> Authorized(kind),
     length |-> ContentLength(kind), target |-> target]

CreateKinds == {"create_realm", "create_client", "create_user"}

\* q after the request was issued and answered with r
Exchange(q, kind, target, r) ==
    [q EXCEPT !.log = Append(@, Req(kind, target)),
              !.answers = Append(IF q.retries = 0 THEN <<>> ELSE @,
                                 [err |-> r.err, status |-> r.status]),
              !.otherErr = @ \/ r.err # "none"
                             \/ ~(Is2xx(r.status) \/ (r.status = 409 /\ kind \in CreateKinds)),
              !.faulty = @ \/ r \notin Regular(kind, target)]

\* faulty variant: a rejected token is retried like a server error
IsRetryUnauthorized(method, r) ==
    \/ r.err = "connect"
    \/ r.err = "read" /\ method \in AllowedMethods
    \/ r.err = "none" /\ method \in AllowedMethods /\ r.status \in StatusForcelist \cup {401}

\* faulty variant: conflicts and client errors are retried as well
IsRetryClientErrors(method, r) ==
    \/ r.err = "connect"
    \/ r.err = "read" /\ method \in AllowedMethods
    \/ r.err = "none" /\ r.status \in StatusForcelist \cup {400, 401, 409}

\* faulty variant: a broken read is retried for every method
IsRetryReadErrors(method, r) ==
    \/ r.err \in {"connect", "read"}
    \/ r.err = "none" /\ method \in AllowedMethods /\ r.status \in StatusForcelist

\* urllib3's Retry as configured by create_session_with_retries: whether a
\* failed attempt is one the adapter repeats.  A connection that cannot be
\* established is repeated for every method; a broken read and a status of
\* the forcelist only for the allowed (idempotent) methods.
IsRetry(method, r) ==
    \/ r.err = "connect"
    \/ r.err = "read" /\ method \in AllowedMethods
    \/ r.err = "none" /\ method \in AllowedMethods /\ r.status \in StatusForcelist

\* faulty variant: the adapter retries without a limit
SettleUnlimited(method, r, retries) ==
    IF script \in SessionScripts /\ IsRetry(method, r) THEN "retry"
    ELSE IF r.err # "none" THEN "raise" ELSE "deliver"

\* What a transport call does with the answer r to its attempt: "retry"
\* the request, "raise" an exception to the caller, or "deliver" the
\* response.  Only the session of create_realm.py retries; when its
\* retries are used up the adapter raises (MaxRetryError).
Settle(method, r, retries) ==
    IF script \in SessionScripts /\ IsRetry(method, r)
    THEN IF retries < RetryTotal THEN "retry" ELSE "raise"
    ELSE IF r.err # "none" THEN "raise" ELSE "deliver"

Retry(q) == [q EXCEPT !.retries = @ + 1]

Goto(q, pc) == [q EXCEPT !.pc = pc, !.retries = 0]

\* sys.exit(code), or falling off the end of main (code 0)
Exit(q, code) == [q EXCEPT !.pc = "exit", !.retries = 0, !.code = code]

\* an exception no handler catches: the interpreter prints the traceback
\* and ends the process with status 1
Crash(q) == [Exit(q, 1) EXCEPT !.crashed = TRUE]

\* faulty variant: the handler ends the process with status 0
UnhandledExitsZero(q) == Exit(q, 0)

\* An exception raised by a transport call that the called function does not
\* catch: main's "except Exception" of the urllib scripts exits 1; the
\* setup scripts have no handler.
Unhandled(q) == IF script \in SetupScripts THEN Crash(q) ELSE Exit(q, 1)

-----------------------------------------------------------------------------
(* The steps of the scripts: what each function does with the answer r to  *)
(* its request, and what main does with the function's result.  q is the   *)
(* run's state after the exchange.                                         *)

\* faulty variant: main starts with the token request
FirstStepSkipsProbe == "token"

\* the first request of main
FirstStep == IF script \in SetupScripts THEN "probe" ELSE "token"

\* main of setup-realm-complete.py: the readiness loop.  A 200 breaks out of
\* the loop (its counter is not read again); anything else, an exception
\* included, sleeps and tries again; the loop's else branch exits 1.
wait_ready(q, r) ==
    IF r.err = "none" /\ r.status = 200
    THEN [Goto(q, "token") EXCEPT !.ready = TRUE, !.probes = 0]
    ELSE IF q.probes + 1 >= ProbeAttempts
         THEN [Exit(q, 1) EXCEPT !.probes = ProbeAttempts, !.otherErr = TRUE,
                                 !.faulty = TRUE]
         ELSE [q EXCEPT !.probes = @ + 1, !.otherErr = TRUE, !.faulty = TRUE]

\* the status get_admin_token accepts: urlopen returns for 2xx and raises
\* HTTPError otherwise, raise_for_status() raises for 4xx and 5xx, and
\* KeycloakAdmin.get_admin_token wants 200
TokenAccepted(r) ==
    IF script \in SetupScripts THEN r.status = 200 ELSE Is2xx(r.status)

AfterToken ==
    CASE script \in UrllibScripts -> "realm"
      [] script \in SessionScripts -> "check"
      [] script \in SetupScripts -> "delete"

\* get_admin_token, and main's handling of its failure.  A body without
\* access_token is a KeyError.
get_admin_token(q, r) ==
    LET o == Settle("POST", r, q.retries) IN
    CASE o = "retry" -> Retry(q)
      [] o = "raise" -> Unhandled(q)
      [] o = "deliver" ->
            IF TokenAccepted(r)
            THEN (IF r.val # 0
                  THEN [Goto(q, AfterToken) EXCEPT !.token = TRUE]
                  ELSE Unhandled(q))
            ELSE Exit(q, 1)

\* faulty variant: main stops when the realm could not be deleted
delete_realmChecked(q, r) ==
    IF Settle("DELETE", r, q.retries) = "raise" THEN Crash(q)
    ELSE IF r.status \in {204, 404} THEN Goto(q, "realm")
    ELSE Exit(q, 1)

\* KeycloakAdmin.delete_realm; main ignores what it returns
delete_realm(q, r) ==
    IF Settle("DELETE", r, q.retries) = "raise" THEN Crash(q) ELSE Goto(q, "realm")

\* check_realm_exists and the head of create_realm (create_realm.py)
check_realm_exists(q, r) ==
    LET o == Settle("GET", r, q.retries) IN
    CASE o = "retry" -> Retry(q)
      [] o = "raise" -> Goto(q, "realm")
      [] o = "deliver" ->
            IF r.status = 200
            THEN [Goto(q, "lookup_pre") EXCEPT !.realmOutcome = "AlreadyExists"]
            ELSE Goto(q, "realm")

\* faulty variant: a 409 is not told apart from other errors
RealmOutcomeNoConflict(r) ==
    IF (IF script \in UrllibScripts THEN Is2xx(r.status) ELSE r.status = 201)
    THEN "Created" ELSE "Failed"

\* faulty variant: create_realm.py takes a 409 for a failure
RealmOutcomeSessionNoConflict(r) ==
    CASE script \in UrllibScripts ->
            IF Is2xx(r.status) THEN "Created"
            ELSE IF r.status = 409 THEN "AlreadyExists" ELSE "Failed"
      [] script \in SessionScripts \cup SetupScripts ->
            IF r.status = 201 THEN "Created" ELSE "Failed"

\* faulty variant: every script takes a 409 for an existing realm
RealmOutcomeConflictOk(r) ==
    IF (IF script \in UrllibScripts THEN Is2xx(r.status) ELSE r.status = 201)
    THEN "Created"
    ELSE IF r.status = 409 THEN "AlreadyExists" ELSE "Failed"

\* the outcome the realm creation functions read from a delivered response
RealmOutcome(r) ==
    CASE script \in UrllibScripts ->
            IF Is2xx(r.status) THEN "Created"
            ELSE IF r.status = 409 THEN "AlreadyExists" ELSE "Failed"
      [] script \in SessionScripts ->
            IF r.status = 201 THEN "Created"
            ELSE IF r.status = 409 THEN "AlreadyExists" ELSE "Failed"
      [] script \in SetupScripts ->
            IF r.status = 201 THEN "Created" ELSE "Failed"

\* faulty variant: main goes from the realm straight to the user
AfterRealmSkipsClient ==
    IF script \in SessionScripts THEN "lookup_pre" ELSE "user"

\* the step main takes after the realm step: import-realm-via-api.py and
\* create_realm.py have no client step
AfterRealm ==
    CASE script \in {"minimal"} \cup SetupScripts -> "client"
      [] script = "import" -> "user"
      [] script \in SessionScripts -> "lookup_pre"

\* faulty variant: main goes on whatever the realm step returned
MainAfterRealmContinues(q, outcome) ==
    [Goto(q, AfterRealm) EXCEPT !.realmOutcome = outcome]

\* faulty variant: main ends with status 0 when the realm failed
MainAfterRealmExitsZero(q, outcome) ==
    IF outcome = "Failed"
    THEN [Exit(q, 0) EXCEPT !.realmOutcome = "Failed"]
    ELSE [Goto(q, AfterRealm) EXCEPT !.realmOutcome = outcome]

\* main after the realm step: every script stops when the realm failed
MainAfterRealm(q, outcome) ==
    IF outcome = "Failed"
    THEN [Exit(q, 1) EXCEPT !.realmOutcome = "Failed"]
    ELSE [Goto(q, AfterRealm) EXCEPT !.realmOutcome = outcome]

\* create_minimal_realm / import_realm / create_realm
create_realm(q, r) ==
    LET o == Settle("POST", r, q.retries) IN
    CASE o = "retry" -> Retry(q)
      [] o = "raise" ->
            IF script \in SessionScripts
            THEN MainAfterRealm(q, "Failed")
            ELSE [Unhandled(q) EXCEPT !.realmOutcome = "Failed"]
      [] o = "deliver" -> MainAfterRealm(q, RealmOutcome(r))

\* faulty variant: the development script takes a 409 for an existing client
ClientOutcomeDevConflictOk(r) ==
    IF script = "setup_prod"
    THEN IF r.status = 201 THEN "Created" ELSE "Failed"
    ELSE IF Is2xx(r.status) THEN "Created"
         ELSE IF r.status = 409 THEN "AlreadyExists" ELSE "Failed"

\* the outcome create_client reads from a delivered response
ClientOutcome(r) ==
    IF script \in SetupScripts
    THEN IF r.status = 201 THEN "Created" ELSE "Failed"
    ELSE IF Is2xx(r.status) THEN "Created"
         ELSE IF r.status = 409 THEN "AlreadyExists" ELSE "Failed"

\* faulty variant: main starts over at the realm when the client failed
MainAfterClientRedoesRealm(q, outcome) ==
    IF outcome = "Failed"
    THEN [Goto(q, "realm") EXCEPT !.clientOutcome = "Failed"]
    ELSE [Goto(q, "user") EXCEPT !.clientOutcome = outcome]

\* main after the client step: create-realm-minimal.py drops the result of
\* create_client, setup-realm-complete.py exits 1 on a failure
MainAfterClient(q, outcome) ==
    IF outcome = "Failed" /\ script \in SetupScripts
    THEN [Exit(q, 1) EXCEPT !.clientOutcome = "Failed"]
    ELSE [Goto(q, "user") EXCEPT !.clientOutcome = outcome]

\* faulty variant: an exception of the transport counts as a failed client
create_clientCatchesAll(q, r) ==
    IF Settle("POST", r, q.retries) = "raise"
    THEN MainAfterClient(q, "Failed")
    ELSE [MainAfterClient(q, ClientOutcome(r)) EXCEPT !.clientStatus = r.status]

\* create_client; the status of the response is what its message prints
create_client(q, r) ==
    IF Settle("POST", r, q.retries) = "raise"
    THEN [Unhandled(q) EXCEPT !.clientOutcome = "Failed"]
    ELSE [MainAfterClient(q, ClientOutcome(r)) EXCEPT !.clientStatus = r.status]

\* faulty variant: the id is used without being tested
HasIdUnchecked(val) == TRUE

\* "if user_id:" / "if users:" / "if not user_id": whether the value read
\* from the Location header or from the lookup's list names a user
HasId(val) == val # 0

\* faulty variant: the user is created although the lookup found it
lookup_before_createIgnored(q, r) ==
    LET o == Settle("GET", r, q.retries) IN
    CASE o = "retry" -> Retry(q)
      [] o = "raise" -> Goto(q, "user")
      [] o = "deliver" ->
            IF r.status = 200 /\ r.val # 0
            THEN [Goto(q, "user") EXCEPT !.userOutcome = "AlreadyExists"]
            ELSE Goto(q, "user")

\* create_user of create_realm.py, first part: the user is looked up before
\* it is created; a non-empty list ends the function with True
lookup_before_create(q, r) ==
    LET o == Settle("GET", r, q.retries) IN
    CASE o = "retry" -> Retry(q)
      [] o = "raise" -> Goto(q, "user")
      [] o = "deliver" ->
            IF r.status = 200 /\ r.val # 0
            THEN [Goto(q, "verify") EXCEPT !.userOutcome = "AlreadyExists"]
            ELSE Goto(q, "user")

\* create_user, the POST.  The urllib scripts go on to look the user up
\* after a 2xx and after a 409, and main ignores a False; create_realm.py
\* reads the id from the Location header and returns True after a 409;
\* KeycloakAdmin.create_user splits the Location header (AttributeError
\* when it is absent) and main exits 1 without an id.
create_user(q, r) ==
    LET o == Settle("POST", r, q.retries) IN
    CASE script \in UrllibScripts ->
            IF o = "raise" THEN [Unhandled(q) EXCEPT !.userOutcome = "Failed"]
            ELSE IF Is2xx(r.status) THEN [Goto(q, "lookup") EXCEPT !.userOutcome = "Created"]
            ELSE IF r.status = 409 THEN [Goto(q, "lookup") EXCEPT !.userOutcome = "AlreadyExists"]
            ELSE [Exit(q, 0) EXCEPT !.userOutcome = "Failed"]
      [] script \in SessionScripts ->
            IF o = "retry" THEN Retry(q)
            ELSE IF o = "raise" THEN [Exit(q, 1) EXCEPT !.userOutcome = "Failed"]
            ELSE IF r.status = 201
                 THEN (IF HasId(r.val)
                       THEN [Goto(q, "cred") EXCEPT !.userOutcome = "Created", !.userId = r.val]
                       ELSE [Goto(q, "verify") EXCEPT !.userOutcome = "Created"])
            ELSE IF r.status = 409 THEN [Goto(q, "verify") EXCEPT !.userOutcome = "AlreadyExists"]
            ELSE [Exit(q, 1) EXCEPT !.userOutcome = "Failed"]
      [] script \in SetupScripts ->
            IF o = "raise" THEN [Crash(q) EXCEPT !.userOutcome = "Failed"]
            ELSE IF r.status = 201
                 THEN (IF r.val = 0 THEN [Crash(q) EXCEPT !.userOutcome = "Created"]
                       ELSE IF HasId(r.val)
                       THEN [Goto(q, "cred") EXCEPT !.userOutcome = "Created", !.userId = r.val]
                       ELSE [Exit(q, 1) EXCEPT !.userOutcome = "Created"])
            ELSE [Exit(q, 1) EXCEPT !.userOutcome = "Failed"]

\* faulty variant: main exits 1 when the lookup gives no id
lookup_userChecked(q, r) ==
    IF Settle("GET", r, q.retries) = "raise" THEN Unhandled(q)
    ELSE IF Is2xx(r.status) /\ HasId(r.val)
         THEN [Goto(q, "cred") EXCEPT !.userId = r.val]
         ELSE Exit(q, 1)

\* create_user of the urllib scripts, the lookup by username: users[0]['id']
\* of a non-empty list is the id; an empty list or an HTTPError returns
\* False, which main ignores
lookup_user(q, r) ==
    IF Settle("GET", r, q.retries) = "raise" THEN Unhandled(q)
    ELSE IF Is2xx(r.status) /\ HasId(r.val)
         THEN [Goto(q, "cred") EXCEPT !.userId = r.val]
         ELSE Exit(q, 0)

\* the reset-password PUT.  The urllib scripts return True or False and main
\* exits 0 either way; create_realm.py prints a warning for a status other
\* than 204 and returns True, while an exception of the session ends
\* create_user with False; setup-realm-complete.py exits 1 on a failure.
set_user_password(q, r) ==
    LET o == Settle("PUT", r, q.retries) IN
    CASE script \in UrllibScripts ->
            IF o = "raise" THEN [Unhandled(q) EXCEPT !.credOutcome = "Failed"]
            ELSE IF Is2xx(r.status) THEN [Exit(q, 0) EXCEPT !.credOutcome = "Set"]
            ELSE [Exit(q, 0) EXCEPT !.credOutcome = "Failed"]
      [] script \in SessionScripts ->
            IF o = "retry" THEN Retry(q)
            ELSE IF o = "raise" THEN [Exit(q, 1) EXCEPT !.credOutcome = "Failed"]
            ELSE IF r.status = 204 THEN [Goto(q, "verify") EXCEPT !.credOutcome = "Set"]
            ELSE [Goto(q, "verify") EXCEPT !.credOutcome = "Failed"]
      [] script \in SetupScripts ->
            IF o = "raise" THEN [Crash(q) EXCEPT !.credOutcome = "Failed"]
            ELSE IF r.status = 204 THEN [Exit(q, 0) EXCEPT !.credOutcome = "Set"]
            ELSE [Exit(q, 1) EXCEPT !.credOutcome = "Failed"]

\* main of create_realm.py, the closing check that the realm is reachable:
\* whatever the answer, main prints and returns
verify_realm(q, r) ==
    IF Settle("GET", r, q.retries) = "retry" THEN Retry(q) ELSE Exit(q, 0)

-----------------------------------------------------------------------------
(* The state machine *)

\* a finished run, as the following run leaves it behind: what remains of a
\* process that has exited is its exit code and the state it left the
\* target in
Summary(q) ==
    [InitProc EXCEPT !.pc = "exit", !.code = q.code, !.crashed = q.crashed,
                     !.faulty = q.faulty, !.final = q.final]

\* the run's state with the target's resources recorded at process exit
Done(q, s) == IF q.pc = "exit" THEN [q EXCEPT !.final = Resources(s)] ELSE q

Init ==
    /\ script \in Scripts
    /\ srv \in InitialTargets
    /\ proc = [p \in Runs |-> InitProc]
    /\ faults = 0

\* The p-th run begins (main is entered, after its argument parsing): runs
\* are executed one after the other.
Start(p) ==
    /\ proc[p].pc = "idle"
    /\ IF p = 1 THEN TRUE ELSE proc[p - 1].pc = "exit"
    /\ proc' = [q \in Runs |->
                  IF q = p THEN [InitProc EXCEPT !.pc = FirstStep]
                  ELSE IF q = p - 1 THEN Summary(proc[q])
                  ELSE proc[q]]
    /\ UNCHANGED <<script, srv, faults>>

\* what a readiness probe may be answered
ProbeAnswers ==
    {Answer(200, 0, TRUE), Answer(503, 0, FALSE), Failure("connect")}

\* One readiness probe of setup-realm-complete.py.  That the service is not
\* up yet is no deviation: it answers 200, 503 or not at all.
Probe(p) ==
    /\ proc[p].pc = "probe"
    /\ \E r \in ProbeAnswers :
          proc' = [proc EXCEPT ![p] = Done(wait_ready(proc[p], r), srv)]
    /\ UNCHANGED <<script, srv, faults>>

\* the function that is waiting for the answer at each position of main
Handle(at, q, r) ==
    CASE at = "token" -> get_admin_token(q, r)
      [] at = "delete" -> delete_realm(q, r)
      [] at = "check" -> check_realm_exists(q, r)
      [] at = "realm" -> create_realm(q, r)
      [] at = "client" -> create_client(q, r)
      [] at = "lookup_pre" -> lookup_before_create(q, r)
      [] at = "user" -> create_user(q, r)
      [] at = "lookup" -> lookup_user(q, r)
      [] at = "cred" -> set_user_password(q, r)
      [] at = "verify" -> verify_realm(q, r)

\* One HTTP exchange of run p at position `at`: the request of the given
\* kind is issued, the service carries it out and answers, and the script
\* handles the answer.
Step(p, at, kind) ==
    /\ proc[p].pc = at
    /\ LET target == IF kind = "set_credential" THEN proc[p].userId ELSE 0 IN
       \E r \in Answers(kind, target) :
          /\ Serve(kind, target, r)
          /\ proc' = [proc EXCEPT ![p] =
                        Done(Handle(at, Exchange(proc[p], kind, target, r), r),
                             Apply(kind, target, r))]
    /\ UNCHANGED script

TokenStep(p) == Step(p, "token", "token")

DeleteRealmStep(p) == Step(p, "delete", "delete_realm")

CheckRealmStep(p) == Step(p, "check", "check_realm")

CreateRealmStep(p) == Step(p, "realm", "create_realm")

CreateClientStep(p) == Step(p, "client", "create_client")

LookupBeforeCreateStep(p) == Step(p, "lookup_pre", "lookup_user")

CreateUserStep(p) == Step(p, "user", "create_user")

LookupUserStep(p) == Step(p, "lookup", "lookup_user")

SetPasswordStep(p) == Step(p, "cred", "set_credential")

VerifyRealmStep(p) == Step(p, "verify", "verify_realm")

Next ==
    \E p \in Runs :
        \/ Start(p)
        \/ Probe(p)
        \/ TokenStep(p)
        \/ DeleteRealmStep(p)
        \/ CheckRealmStep(p)
        \/ CreateRealmStep(p)
        \/ CreateClientStep(p)
        \/ LookupBeforeCreateStep(p)
        \/ CreateUserStep(p)
        \/ LookupUserStep(p)
        \/ SetPasswordStep(p)
        \/ VerifyRealmStep(p)

Spec == Init /\ [][Next]_vars

-----------------------------------------------------------------------------
(* The two setup-realm-complete.py scripts side by side: run 1 is the      *)
(* development script, run 2 the production script, and every answer of    *)
(* the service is given to both.  script names the one whose turn it is to *)
(* be evaluated in the current state; the other one is evaluated in the    *)
(* next state, where script names it.                                      *)

OtherSetup == IF script = "setup_dev" THEN "setup_prod" ELSE "setup_dev"

DevProdInit ==
    /\ script = "setup_dev"
    /\ srv \in InitialTargets
    /\ proc = [p \in Runs |-> InitProc]
    /\ faults = 0

PairStart ==
    /\ proc[1].pc = "idle" /\ proc[2].pc = "idle"
    /\ proc' = [q \in Runs |->
                  IF q \in {1, 2} THEN [InitProc EXCEPT !.pc = FirstStep]
                  ELSE proc[q]]
    /\ UNCHANGED <<script, srv, faults>>

PairProbe ==
    /\ proc[1].pc = "probe" /\ proc[2].pc = "probe"
    /\ script' = OtherSetup
    /\ \E r \in ProbeAnswers :
          proc' = [q \in Runs |->
                     IF q \in {1, 2} THEN Done(wait_ready(proc[q], r), srv)
                     ELSE proc[q]]
    /\ UNCHANGED <<srv, faults>>

\* one exchange of both runs at position `at`, answered alike
PairStep(at, kind) ==
    /\ proc[1].pc = at /\ proc[2].pc = at
    /\ script' = OtherSetup
    /\ \E me \in {IF script = "setup_dev" THEN 1 ELSE 2} :
       \E target \in {IF kind = "set_credential" THEN proc[me].userId ELSE 0} :
       \E r \in Answers(kind, target) :
       \E mine \in {Exchange(proc[me], kind, target, r)} :
       \E theirs \in {Exchange(proc[3 - me], kind, target, r)} :
       \E s \in {Apply(kind, target, r)} :
          /\ Serve(kind, target, r)
          /\ proc' = [q \in Runs |->
                        IF q = me THEN Done(Handle(at, mine, r), s)
                        ELSE IF q = 3 - me THEN Done(Handle(at, theirs, r)', s)
                        ELSE proc[q]]

PairToken == PairStep("token", "token")

PairDeleteRealm == PairStep("delete", "delete_realm")

PairCreateRealm == PairStep("realm", "create_realm")

PairCreateClient == PairStep("client", "create_client")

PairCreateUser == PairStep("user", "create_user")

PairSetPassword == PairStep("cred", "set_credential")

PairNext ==
    \/ PairStart
    \/ PairProbe
    \/ PairToken
    \/ PairDeleteRealm
    \/ PairCreateRealm
    \/ PairCreateClient
    \/ PairCreateUser
    \/ PairSetPassword

SpecDevProd == DevProdInit /\ [][PairNext]_vars

-----------------------------------------------------------------------------
(* Two processes running create_realm.py at the same time against one      *)
(* target: each request of either process is one step, and the steps of    *)
(* the two are interleaved in every order.                                 *)

Racers == {1, 2}

\* the deviating answers of the service are counted from MaxFaults -
\* RaceFaults on: it deviates at most RaceFaults times while the two run
RaceInit ==
    /\ script = "create_realm"
    /\ srv \in InitialTargets
    /\ proc = [p \in Runs |-> InitProc]
    /\ faults = MaxFaults - RaceFaults

\* process p enters main, whatever the other one is doing
RaceStart(p) ==
    /\ proc[p].pc = "idle"
    /\ proc' = [proc EXCEPT ![p] = [InitProc EXCEPT !.pc = FirstStep]]
    /\ UNCHANGED <<script, srv, faults>>

RaceNext ==
    \E p \in Racers :
        \/ RaceStart(p)
        \/ TokenStep(p)
        \/ CheckRealmStep(p)
        \/ CreateRealmStep(p)
        \/ LookupBeforeCreateStep(p)
        \/ CreateUserStep(p)
        \/ SetPasswordStep(p)
        \/ VerifyRealmStep(p)

SpecRace == RaceInit /\ [][RaceNext]_vars

-----------------------------------------------------------------------------
(* Properties *)

Kinds(p) == {proc[p].log[i].kind : i \in DOMAIN proc[p].log}

Count(p, kind) == Cardinality({i \in DOMAIN proc[p].log : proc[p].log[i].kind = kind})

LastKind(p) == proc[p].log[Len(proc[p].log)].kind

LastAnswer(p) == proc[p].answers[Len(proc[p].answers)]

\* run p issues a request of one of the kinds K in this step
Issues(p, K) ==
    /\ Len(proc'[p].log) = Len(proc[p].log) + 1
    /\ proc'[p].log[Len(proc'[p].log)].kind \in K

Exited(p) == proc[p].pc = "exit"

RealmReady(p) == proc[p].realmOutcome \in {"Created", "AlreadyExists"}

\* the answers of the last request that were followed by another attempt
Reattempted(p) ==
    {proc[p].answers[i] : i \in 1..(Len(proc[p].answers) - 1)}
      \cup (IF proc[p].retries > 0 THEN {LastAnswer(p)} ELSE {})

Is4xx(a) == a.err = "none" /\ a.status >= 400 /\ a.status <= 499

\* C1: in every run of every script, a client-creation or user-creation
\* request is issued only when the realm step of that run has already
\* returned Created or AlreadyExists.
C1_RealmBeforeChildren ==
    [][\A p \in Runs :
          Issues(p, {"create_client", "create_user"}) => RealmReady(p)]_vars

C1_Witness ==
    \E p \in Runs :
        /\ {"create_client", "create_user"} \subseteq Kinds(p)
        /\ proc[p].realmOutcome = "AlreadyExists"

\* C2: a credential-set request is issued only when the user's id has
\* already been resolved in that run (from the Location header or from a
\* lookup), and it targets that id; without a resolved id none is issued.
C2_CredentialNeedsUserId ==
    [][\A p \in Runs :
          Issues(p, {"set_credential"}) =>
              /\ proc[p].userId # 0
              /\ proc'[p].log[Len(proc'[p].log)].target = proc[p].userId]_vars

C2_Witness ==
    \E p \in Runs :
        /\ "set_credential" \in Kinds(p)
        /\ proc[p].userId # 0
        /\ proc[p].credOutcome = "Set"

\* C3: a run exits with code 0 only if its realm step, its user step and its
\* credential-set step all succeeded.
C3_ExitZeroOnlyOnFullSuccess ==
    \A p \in Runs :
        (Exited(p) /\ proc[p].log # <<>> /\ proc[p].code = 0) =>
            /\ RealmReady(p)
            /\ proc[p].userOutcome \in {"Created", "AlreadyExists"}
            /\ proc[p].credOutcome = "Set"

\* C4: a 409 answer to a create request (realm, client, user) is taken as
\* the outcome AlreadyExists, and the run does not end with a non-zero exit
\* code on it.
C4_ConflictTransparency ==
    \A p \in Runs :
        (proc[p].log # <<>> /\ LastKind(p) \in CreateKinds
           /\ LastAnswer(p) = [err |-> "none", status |-> 409]) =>
            /\ LastKind(p) = "create_realm" => proc[p].realmOutcome = "AlreadyExists"
            /\ LastKind(p) = "create_client" => proc[p].clientOutcome = "AlreadyExists"
            /\ LastKind(p) = "create_user" => proc[p].userOutcome = "AlreadyExists"
            /\ Exited(p) => proc[p].code = 0

C6_RetryBoundedness ==
    \A p \in Runs :
        (script \in SessionScripts /\ proc[p].log # <<>> /\ LastKind(p) # "token"
           /\ \A i \in DOMAIN proc[p].answers :
                 proc[p].answers[i] = [err |-> "none", status |-> 503]) =>
            /\ Len(proc[p].answers) <= 3
            /\ proc[p].retries = 0 => Len(proc[p].answers) = 3

\* C7 as stated: an attempt is repeated only after a 502, 503 or 504 or a
\* connectivity error.
C7_RetryOnlyOn502_503_504 ==
    \A p \in Runs : \A a \in Reattempted(p) :
        a.err # "none" \/ a.status \in {502, 503, 504}

\* C7 as amended: an attempt is repeated only after a 500, 502, 503 or 504
\* or a connectivity error; an answer with any other status is returned to
\* the caller after that one attempt.
C7_RetryOnlyOnForcelist ==
    \A p \in Runs : \A a \in Reattempted(p) :
        a.err # "none" \/ a.status \in {500, 502, 503, 504}

C7_Witness ==
    \E p \in Runs :
        /\ Len(proc[p].answers) >= 2
        /\ proc[p].answers[1] = [err |-> "none", status |-> 500]

\* C8: a request answered with 409 or another 4xx is not attempted again: a
\* create request that gets such an answer is issued exactly once.
C8_ClientErrorsNotRetried ==
    \A p \in Runs :
        /\ \A a \in Reattempted(p) : ~Is4xx(a)
        /\ (proc[p].log # <<>> /\ LastKind(p) \in CreateKinds /\ Is4xx(LastAnswer(p))) =>
              Count(p, LastKind(p)) = Len(proc[p].answers)

C8_Witness ==
    \E p \in Runs :
        /\ proc[p].log # <<>>
        /\ LastKind(p) = "create_user"
        /\ LastAnswer(p).status = 409
        /\ Count(p, "create_user") = 1
        /\ proc[p].pc # "user"

\* C9: when the token is not obtained, the run ends with a non-zero exit
\* code and issues no request besides the token request.
C9_TokenFailureIsFatal ==
    \A p \in Runs :
        (proc[p].log # <<>> /\ ~proc[p].token) =>
            /\ Kinds(p) = {"token"}
            /\ proc[p].pc \in {"token", "exit"}
            /\ Exited(p) => proc[p].code # 0

C9_Witness ==
    \E p \in Runs :
        /\ Exited(p) /\ ~proc[p].token /\ proc[p].code = 1
        /\ Kinds(p) = {"token"}
        /\ LastAnswer(p).status = 401

\* C10: when the realm step fails, the run ends with a non-zero exit code
\* and issues no client, user, lookup or credential request.
C10_RealmFailureIsFatal ==
    \A p \in Runs :
        proc[p].realmOutcome = "Failed" =>
            /\ Exited(p) /\ proc[p].code # 0
            /\ LastKind(p) = "create_realm"
            /\ Kinds(p) \cap {"create_client", "create_user", "lookup_user",
                              "set_credential"} = {}

C10_Witness ==
    \E p \in Runs :
        /\ proc[p].realmOutcome = "Failed" /\ Exited(p)
        /\ LastAnswer(p).status = 500

\* the user's id could not be read: the lookup of the urllib scripts ended the
\* run (empty list or error), or a 201 came without a Location header
UserIdUnresolved(p) ==
    \/ script \in UrllibScripts /\ proc[p].log # <<>>
          /\ LastKind(p) = "lookup_user" /\ Exited(p)
    \/ script \notin UrllibScripts /\ proc[p].userOutcome = "Created"
          /\ proc[p].userId = 0

UserFailed(p) == proc[p].userOutcome = "Failed" \/ UserIdUnresolved(p)

\* the user step is over and left the user created or found
UserEstablished(p) ==
    /\ proc[p].userOutcome \in {"Created", "AlreadyExists"}
    /\ proc[p].pc \notin {"user", "lookup"}
    /\ ~UserIdUnresolved(p)

\* C11: a failed client step does not end the run: a run that has ended
\* after its realm step succeeded and its client step failed has issued the
\* user-creation request.
C11_ClientFailureDoesNotAbort ==
    \A p \in Runs :
        (Exited(p) /\ RealmReady(p) /\ proc[p].clientOutcome = "Failed") =>
            "create_user" \in Kinds(p)

\* C12: when the user step failed (the creation was answered with something
\* other than success or 409, or the user's id could not be resolved), the
\* run ends with a non-zero exit code and issues no credential-set request.
C12_UserFailureAborts ==
    \A p \in Runs :
        UserFailed(p) =>
            /\ Exited(p) /\ proc[p].code # 0
            /\ "set_credential" \notin Kinds(p)

\* C13: when the credential-set request failed after the user was
\* established, the run ends with a non-zero exit code.
C13_CredentialFailureExitsNonZero ==
    \A p \in Runs :
        (proc[p].credOutcome = "Failed" /\ Exited(p)) => proc[p].code # 0

\* C14: scenario D.  A run whose token and realm steps succeeded and whose
\* client creation was answered 400 issues the user-creation request, issues
\* the credential-set request once the user is established, and ends with a
\* non-zero exit code.
C14_ScenarioD ==
    \A p \in Runs :
        (Exited(p) /\ proc[p].token /\ RealmReady(p)
           /\ proc[p].clientStatus = 400) =>
            /\ "create_user" \in Kinds(p)
            /\ UserEstablished(p) => "set_credential" \in Kinds(p)
            /\ proc[p].code # 0

\* C15: a run that ends with the user established (created, or found to
\* exist by a 409 or by a lookup) has issued a credential-set request.
C15_CredentialAlwaysSet ==
    \A p \in Runs :
        (Exited(p) /\ UserEstablished(p)) => "set_credential" \in Kinds(p)

\* C16: after a 409 to the user creation the next request is the lookup by
\* username; when a user that already exists cannot be resolved by the
\* lookup, the run issues no credential-set request.
C16_ConflictThenLookup ==
    \A p \in Runs :
        /\ (proc[p].log # <<>> /\ LastKind(p) = "create_user"
              /\ LastAnswer(p) = [err |-> "none", status |-> 409]) =>
                 proc[p].pc = "lookup"
        /\ (proc[p].userOutcome = "AlreadyExists" /\ UserIdUnresolved(p)) =>
                 "set_credential" \notin Kinds(p)

IsResourceRequest(k) ==
    k \in {"create_realm", "create_client", "create_user", "set_credential"}

KindSeq(p) == [i \in DOMAIN proc[p].log |-> proc[p].log[i].kind]

\* the create and credential requests of run p, in the order it issued them
ResourceRequests(p) == SelectSeq(KindSeq(p), IsResourceRequest)

\* run p has ended, and every answer it got was the regular one
RegularRun(p) == Exited(p) /\ proc[p].log # <<>> /\ ~proc[p].faulty

HasClientStep == script \in {"minimal"} \cup SetupScripts

C18_ScenarioB ==
    \A p \in Runs :
        (RegularRun(p) /\ proc[p].initial.realm /\ proc[p].initial.user
           /\ ~proc[p].initial.client) =>
            /\ proc[p].realmOutcome = "AlreadyExists"
            /\ proc[p].userOutcome = "AlreadyExists"
            /\ proc[p].clientOutcome = "Created"
            /\ \E i \in DOMAIN proc[p].log :
                  /\ proc[p].log[i].kind = "set_credential"
                  /\ proc[p].log[i].target = srv.user.id
            /\ proc[p].code = 0

\* C19: scenario C.  When every attempt of the realm creation is answered
\* 500, the request is attempted three times, after which the run ends with
\* a non-zero exit code, having issued no client or user request.
C19_ScenarioC ==
    \A p \in Runs :
        (proc[p].log # <<>> /\ LastKind(p) = "create_realm"
           /\ proc[p].retries = 0
           /\ \A i \in DOMAIN proc[p].answers :
                 proc[p].answers[i] = [err |-> "none", status |-> 500]) =>
            /\ Len(proc[p].answers) = 3
            /\ Exited(p) /\ proc[p].code # 0
            /\ Kinds(p) \cap {"create_client", "create_user"} = {}

\* the token requests of run p come first in its log
TokenRequestsFirst(p) ==
    \A i \in DOMAIN proc[p].log :
        proc[p].log[i].kind = "token" =>
            \A j \in 1..i : proc[p].log[j].kind = "token"

\* C20 as stated: the token endpoint is requested exactly once in a run, and
\* when that request fails the run ends without another attempt.
C20_TokenRequestedOnce ==
    \A p \in Runs :
        /\ Count(p, "token") <= 1
        /\ (proc[p].log # <<>> /\ ~proc[p].token) =>
              Exited(p) /\ proc[p].code # 0

\* C20 as amended: a token request that got a response is never repeated,
\* and a response that is not the token is fatal; only create_realm.py
\* repeats a token request, after a connection that could not be
\* established and at most RetryTotal times, and the run ends with a
\* non-zero exit code when the last attempt failed.  No token is requested
\* later in the run.
C20_TokenSingleExchange ==
    \A p \in Runs :
        /\ TokenRequestsFirst(p)
        /\ Count(p, "token") <= (IF script \in SessionScripts THEN 1 + RetryTotal ELSE 1)
        /\ (proc[p].log # <<>> /\ LastKind(p) = "token") =>
              /\ Len(proc[p].answers) = Count(p, "token")
              /\ \A a \in Reattempted(p) : a.err = "connect"
              /\ (proc[p].retries = 0 /\ ~proc[p].token) =>
                    Exited(p) /\ proc[p].code # 0

C20_Witness ==
    \E p \in Runs :
        /\ Count(p, "token") = 1 + RetryTotal
        /\ LastKind(p) = "token"
        /\ Exited(p) /\ proc[p].code = 1

AdminKinds ==
    {"create_realm", "create_client", "create_user", "lookup_user",
     "set_credential"}

\* C21: no token is requested once one has been obtained, and a run whose
\* realm, client, user, lookup or credential request is answered 401 ends
\* there with a non-zero exit code.
C21_NoRefreshRejectionFatal ==
    \A p \in Runs :
        /\ TokenRequestsFirst(p)
        /\ proc[p].token => proc[p].pc # "token"
        /\ (proc[p].log # <<>> /\ LastKind(p) \in AdminKinds
              /\ LastAnswer(p) = [err |-> "none", status |-> 401]) =>
                 Exited(p) /\ proc[p].code # 0

\* the positions of main in the order the scripts go through them
StepOrder ==
    <<"idle", "probe", "token", "delete", "check", "realm", "client",
      "lookup_pre", "user", "lookup", "cred", "verify", "exit">>

StepRank(pc) == CHOOSE i \in DOMAIN StepOrder : StepOrder[i] = pc

C23_EveryRequestAuthorized ==
    \A p \in Runs : \A i \in DOMAIN proc[p].log :
        proc[p].log[i].kind # "token" =>
            proc[p].log[i].auth /\ proc[p].log[i].length

\* C23 as amended: every request a run issues after its token request is
\* issued with the token obtained and carries the bearer credential, except
\* the closing GET of /realms/{realm} of create_realm.py; the requests with a
\* body and the DELETE carry a content-length, the GETs do not.
C23_AdminRequestsAuthorized ==
    \A p \in Runs : \A i \in DOMAIN proc[p].log :
        proc[p].log[i].kind # "token" =>
            /\ proc[p].token
            /\ proc[p].log[i].auth = (proc[p].log[i].kind # "verify_realm")
            /\ proc[p].log[i].kind = "verify_realm" => script \in SessionScripts
            /\ proc[p].log[i].length = (proc[p].log[i].method # "GET")

C23_Witness ==
    \E p \in Runs :
        /\ Exited(p)
        /\ {"lookup_user", "set_credential", "verify_realm"} \subseteq Kinds(p)

\* a step of run p other than its start
RunStep(p) ==
    \/ Probe(p) \/ TokenStep(p) \/ DeleteRealmStep(p) \/ CheckRealmStep(p)
    \/ CreateRealmStep(p) \/ CreateClientStep(p) \/ LookupBeforeCreateStep(p)
    \/ CreateUserStep(p) \/ LookupUserStep(p) \/ SetPasswordStep(p)
    \/ VerifyRealmStep(p)

\* the requests of a run: each position of main that issues requests, with
\* every attempt the session may make there
RequestBound == (Len(StepOrder) - 3) * (1 + RetryTotal)

\* C24: every run runs to completion.  The requests, the attempts of one
\* request and the readiness probes of a run are bounded, and a run that has
\* started and not exited can always take its next step, whatever the
\* service answered so far.
C24_RunsToCompletion ==
    \A p \in Runs :
        /\ Len(proc[p].log) <= RequestBound
        /\ Len(proc[p].answers) <= 1 + RetryTotal
        /\ proc[p].retries <= RetryTotal
        /\ proc[p].probes <= ProbeAttempts
        /\ proc[p].pc \notin {"idle", "exit"} => ENABLED RunStep(p)

C24_Witness ==
    \E p \in Runs :
        /\ Exited(p) /\ proc[p].log # <<>> /\ LastKind(p) # "token"
        /\ Len(proc[p].answers) = 1 + RetryTotal

\* C25: every credential-set request of a run targets the id of the user
\* with the requested username, also when the lookup lists another account
\* first.
C25_CredentialTargetsOwner ==
    \A p \in Runs : \A i \in DOMAIN proc[p].log :
        proc[p].log[i].kind = "set_credential" =>
            proc[p].log[i].target = srv.user.id

\* C26: in create-realm-minimal.py and import-realm-via-api.py a run in which
\* every request got an HTTP response exits 0 exactly when the token was
\* obtained and the realm step succeeded, whatever the statuses of the client,
\* user, lookup and credential responses.
C26_ExitCodeFromTokenAndRealm ==
    \A p \in Runs :
        (script \in UrllibScripts /\ Exited(p) /\ proc[p].log # <<>>
           /\ LastAnswer(p).err = "none") =>
            (proc[p].code = 0 <=> (proc[p].token /\ RealmReady(p)))

C26_Witness ==
    \E p \in Runs :
        /\ script = "minimal" /\ Exited(p) /\ proc[p].code = 0
        /\ proc[p].clientOutcome = "Failed"
        /\ proc[p].userOutcome = "Failed"

\* C27: in create-realm-minimal.py a request that ends in a connection-level
\* failure is the last of the run, which exits 1; a client creation that got
\* an HTTP response of any status is followed by the user step.
C27_ConnectionFailureAborts ==
    \A p \in Runs :
        (script = "minimal" /\ proc[p].log # <<>>) =>
            /\ LastAnswer(p).err # "none" => Exited(p) /\ proc[p].code = 1
            /\ (LastKind(p) = "create_client" /\ LastAnswer(p).err = "none") =>
                  proc[p].pc = "user"

C27_Witness ==
    \E p \in Runs :
        /\ script = "minimal" /\ Exited(p) /\ proc[p].code = 1
        /\ proc[p].log # <<>> /\ LastKind(p) = "create_client"
        /\ LastAnswer(p).err = "connect"

\* the DELETE of a run of setup-realm-complete.py comes once, right after
\* the token request and right before the realm creation
DeleteInPlace(p) ==
    /\ Count(p, "delete_realm") <= 1
    /\ proc[p].token => proc[p].pc = "delete" \/ Count(p, "delete_realm") = 1
    /\ \A i \in DOMAIN proc[p].log :
          /\ proc[p].log[i].kind = "delete_realm" =>
                i > 1 /\ proc[p].log[i - 1].kind = "token"
          /\ proc[p].log[i].kind = "create_realm" =>
                i > 1 /\ proc[p].log[i - 1].kind = "delete_realm"

\* C28 as stated: in setup-realm-complete.py the realm is deleted exactly
\* once per run, between the token and the realm creation, and the run goes
\* on to the realm creation whatever became of the delete.
C28_DeleteNeverStopsRun ==
    \A p \in Runs :
        (script \in SetupScripts /\ proc[p].log # <<>>) =>
            /\ DeleteInPlace(p)
            /\ LastKind(p) = "delete_realm" => proc[p].pc = "realm"

\* C28 as amended: the same, for a delete that got a response of any status;
\* a delete that ends in a connection-level failure ends the run with exit
\* code 1.
C28_DeleteStatusNeverStopsRun ==
    \A p \in Runs :
        (script \in SetupScripts /\ proc[p].log # <<>>) =>
            /\ DeleteInPlace(p)
            /\ LastKind(p) = "delete_realm" =>
                  IF LastAnswer(p).err = "none" THEN proc[p].pc = "realm"
                  ELSE Exited(p) /\ proc[p].code = 1 /\ proc[p].crashed

C28_Witness ==
    \E p \in Runs :
        /\ script \in SetupScripts
        /\ KindSeq(p) = <<"token", "delete_realm", "create_realm">>
        /\ proc[p].answers # <<>>
        /\ proc[p].realmOutcome = "Failed"
        /\ proc[p].initial.realm /\ proc[p].final.realm

\* C29: after a run of setup-realm-complete.py that exits 0 the realm holds
\* the client and the user this run created, the user with its password, and
\* no account that was there before the run.
C29_SetupLeavesOnlyDesiredState ==
    \A p \in Runs :
        (script \in SetupScripts /\ Exited(p) /\ proc[p].log # <<>>
           /\ proc[p].code = 0) =>
            /\ proc[p].final = [realm |-> TRUE, client |-> TRUE, user |-> TRUE,
                                userPw |-> TRUE, other |-> FALSE,
                                otherPw |-> FALSE]
            /\ proc[p].realmOutcome = "Created"
            /\ proc[p].clientOutcome = "Created"
            /\ proc[p].userOutcome = "Created"
            /\ srv.user.id = proc[p].userId

C29_Witness ==
    \E p \in Runs :
        /\ script \in SetupScripts /\ Exited(p) /\ proc[p].log # <<>>
        /\ proc[p].code = 0
        /\ proc[p].initial.client /\ proc[p].initial.user
        /\ proc[p].initial.other /\ ~proc[p].final.other

\* C30: a run of create_realm.py whose realm check is answered 200 and whose
\* username lookup returns a user goes from the lookup to its closing check,
\* issues nothing but GETs after the token request, leaves the target as it
\* found it and exits 0.
C30_NothingChangedWhenPresent ==
    \A p \in Runs :
        (script \in SessionScripts /\ proc[p].log # <<>>
           /\ proc[p].realmOutcome = "AlreadyExists"
           /\ "create_realm" \notin Kinds(p)
           /\ proc[p].userOutcome = "AlreadyExists") =>
            /\ (LastKind(p) = "lookup_user" /\ proc[p].retries = 0) =>
                  proc[p].pc = "verify"
            /\ "create_user" \notin Kinds(p) =>
                  /\ \A i \in DOMAIN proc[p].log :
                        proc[p].log[i].kind # "token" =>
                            proc[p].log[i].method = "GET"
                  /\ Resources(srv) = proc[p].initial
                  /\ Exited(p) =>
                        proc[p].final = proc[p].initial /\ proc[p].code = 0

C30_Witness ==
    \E p \in Runs :
        /\ script \in SessionScripts /\ Exited(p) /\ proc[p].code = 0
        /\ KindSeq(p) = <<"token", "check_realm", "lookup_user", "verify_realm">>
        /\ proc[p].userOutcome = "AlreadyExists"

\* C31: in setup-realm-complete.py no request is issued before a readiness
\* probe has returned 200; at most ProbeAttempts probes fail, and after the
\* last of them the run has exited with a non-zero code and without any
\* request.
C31_TokenAfterReadiness ==
    \A p \in Runs :
        script \in SetupScripts =>
            /\ proc[p].log # <<>> => proc[p].ready
            /\ proc[p].pc \notin {"idle", "probe", "exit"} => proc[p].ready
            /\ proc[p].probes <= ProbeAttempts
            /\ proc[p].pc = "probe" => proc[p].probes < ProbeAttempts
            /\ proc[p].probes = ProbeAttempts =>
                  /\ Exited(p) /\ proc[p].code # 0
                  /\ ~proc[p].ready /\ proc[p].log = <<>>

C31_Witness ==
    \E p \in Runs :
        /\ script \in SetupScripts
        /\ proc[p].probes = ProbeAttempts
        /\ Exited(p) /\ proc[p].code = 1

RaceOnFresh ==
    \E p \in Racers :
        proc[p].pc # "idle" /\ ~proc[p].initial.realm

\* process p asked for the creation although the resource was there by then
LostRealmRace(p) ==
    "create_realm" \in Kinds(p) /\ proc[p].realmOutcome = "AlreadyExists"

LostUserRace(p) ==
    "create_user" \in Kinds(p) /\ proc[p].userOutcome = "AlreadyExists"

\* the last thing process p did was to receive a 409 to the given request
JustConflicted(p, kind) ==
    /\ proc[p].log # <<>> /\ LastKind(p) = kind
    /\ LastAnswer(p) = [err |-> "none", status |-> 409]

\* C33: two create_realm.py processes interleaved on a fresh target and
\* answered as documented both run to the end, exit with status 0, and
\* leave one realm and one user with its password, each created by exactly
\* one of the two; the one that finds the resource created meanwhile takes
\* the 409 for success.
C33_ConcurrentRunsConverge ==
    (RaceOnFresh /\ \A p \in Racers : ~proc[p].faulty) =>
        /\ \A p \in Racers :
              /\ proc[p].pc \notin {"idle", "exit"} => ENABLED RunStep(p)
              /\ Exited(p) => proc[p].code = 0 /\ ~proc[p].crashed
              /\ JustConflicted(p, "create_realm") =>
                    LostRealmRace(p) /\ proc[p].pc = "lookup_pre"
              /\ JustConflicted(p, "create_user") =>
                    LostUserRace(p) /\ proc[p].pc = "verify"
        /\ (\A p \in Racers : Exited(p)) =>
              /\ srv.realm /\ srv.user.id # 0 /\ srv.user.pw
              /\ srv.other.id = 0 /\ srv.nextId = 4
              /\ Cardinality({p \in Racers : proc[p].realmOutcome = "Created"}) = 1
              /\ Cardinality({p \in Racers : proc[p].userOutcome = "Created"}) = 1

C33_Witness ==
    /\ RaceOnFresh
    /\ \A p \in Racers : Exited(p) /\ ~proc[p].faulty /\ proc[p].code = 0
    /\ \E p \in Racers : LostRealmRace(p)
    /\ \E p \in Racers : LostUserRace(p)

\* the user creation of process p was answered 201 without a Location header
CreatedWithoutLocation(p) ==
    /\ script \notin UrllibScripts
    /\ proc[p].log # <<>>
    /\ proc[p].userOutcome = "Created" /\ proc[p].userId = 0

\* C34: after a 201 to the user creation that carries no Location header,
\* the run issues no credential-set request, is not ended by an unhandled
\* error, and exits with a non-zero status.
C34_MissingLocationReported ==
    \A p \in Runs :
        CreatedWithoutLocation(p) =>
            /\ "set_credential" \notin Kinds(p)
            /\ ~proc[p].crashed
            /\ Exited(p) => proc[p].code # 0

====
